---- MODULE Spec2Model ----
(***************************************************************************)
(* A model of the APT repository engine of debian-repo-remux:              *)
(* apt/repo/repository.py (Repository, its pool and name index),           *)
(* apt/repo/packagelist.py (PackageList), apt/repo/package.py (Package),   *)
(* apt/repo/distribution.py (Distribution) and the parts of apt/tags and   *)
(* apt/deb.py those call.  Python objects are records.  A Package's        *)
(* identity is its id field: the line that constructed it and its SHA256   *)
(* (each of the two constructing lines runs only while the SHA256 is not   *)
(* pooled, so it makes at most one object per SHA256 that a caller or the  *)
(* pool can hold).  Remote content (files on the transport, verdicts of    *)
(* the PGP verifier, bytes handed to adopt) is an input of each call.      *)
(***************************************************************************)
EXTENDS Integers, Sequences, FiniteSets, TLC

VARIABLES
    gpg,              \* Repository.gpg is set (a verifier was supplied)
    transport,        \* class of Repository.transport: "File" or "UrlLib"
    _pool,            \* Repository._pool: SHA256 -> Package
    _pool_by_package, \* Repository._pool_by_package: name -> version -> SHA256
    _distributions,   \* Repository._distributions: name -> Distribution
    _hashes,          \* PackageList._hashes (one set, a class attribute)
    _G_ZIPPER,        \* distribution._G_ZIPPER: "fresh", or "eof" after a stream
    listed,           \* history: <<distribution, content>> for each PackageList.add
                      \* of raw content that returned
    ret,              \* the last call: operation, arguments, outcome, transport log
    urllib            \* a UrlLib transport: _last_uri, _last_req and _exists, the
                      \* streams it opened and closed, those it handed out

vars == <<gpg, transport, _pool, _pool_by_package, _distributions, _hashes,
          _G_ZIPPER, listed, ret, urllib>>

----------------------------------------------------------------------------
(* Values *)

None == "<None>"        \* Python None
Absent == "<absent>"    \* key not in TagBlock.dict

MaxIndexLen == 2        \* most stanzas in one Packages index

DistNames == {"stable", "testing"}
Components == {"main", "contrib"}
Architectures == {"amd64"}

NonePkg == [kind |-> "None"]
NoContents == [isNone |-> TRUE, lines |-> <<>>]
Lines(l) == [isNone |-> FALSE, lines |-> l]

\* truthiness of a Python str / None / list
Falsy(v) == v \in {"", None}
ContentsTruthy(c) == ~c.isNone /\ Len(c.lines) > 0

\* Package.magic after Package.__init__
PackageMagic == {"Filename", "MD5Sum", "SHA1", "SHA256", "SHA512"}

TagBlockOf(sha, fname, name, version, section, arch) ==
    [kind |-> "TagBlock", SHA256 |-> sha, Filename |-> fname, Package |-> name,
     Version |-> version, Section |-> section, Architecture |-> arch]

\* obj[key] raises KeyError: TagBlock.__getitem__ is self.dict[item];
\* Package.__getitem__ answers magic keys from its FileHash (None when unset)
RaisesKeyError(obj, key) ==
    IF obj.kind = "Package" /\ key \in PackageMagic
    THEN FALSE
    ELSE obj[key] = Absent

\* Package(repository, parent, data): the dict keys of data are replayed
\* through Package.__setitem__, then the magic keys of data are copied
Package(site, data) ==
    [kind |-> "Package",
     id |-> <<site, IF data.SHA256 = Absent THEN None ELSE data.SHA256>>,
     repo |-> "this",
     SHA256 |-> IF data.SHA256 = Absent THEN None ELSE data.SHA256,
     Filename |-> IF data.Filename = Absent THEN "" ELSE data.Filename,
     Package |-> data.Package, Version |-> data.Version,
     Section |-> data.Section, Architecture |-> data.Architecture,
     _contents |-> NoContents]

----------------------------------------------------------------------------
(* Repository._add_package *)

RequiredFields == <<"SHA256", "Filename", "Package", "Version">>

\* index of the first required field whose check fails, 0 when all pass
FirstBadField(package) ==
    LET bad == {i \in 1..Len(RequiredFields) :
                   \/ RaisesKeyError(package, RequiredFields[i])
                   \/ Falsy(package[RequiredFields[i]])}
    IN IF bad = {} THEN 0 ELSE CHOOSE i \in bad : \A j \in bad : i <= j

NeverInPool(pool, sha) == FALSE

\* package['SHA256'] in self._pool
InPool(pool, sha) == sha \in DOMAIN pool

RegisterOnlyNewNames(byname, name, version, sha) ==
    IF name \in DOMAIN byname
    THEN byname
    ELSE (name :> (version :> sha)) @@ byname

RegisterAlone(byname, name, version, sha) == name :> (version :> sha)

\* self._pool_by_package[name][version] = sha, creating the inner dict
RegisterByName(byname, name, version, sha) ==
    IF name \in DOMAIN byname
    THEN [byname EXCEPT ![name] = (version :> sha) @@ @]
    ELSE (name :> (version :> sha)) @@ byname

PoolInsertByFilename(pool, package) == (package.Filename :> package) @@ pool

PoolInsertNothing(pool, package) == pool

\* self._pool[package['SHA256']] = package
PoolInsert(pool, package) == (package.SHA256 :> package) @@ pool

\* lines 254-262: wrap, pool, register
Inserted(st, new) ==
    [pool |-> PoolInsert(st.pool, new),
     by_name |-> RegisterByName(st.by_name, new.Package, new.Version, new.SHA256),
     exc |-> None, field |-> None, path |-> None, pkg |-> new]

\* lines 239-252, bad being the first required field that fails its check
Checked(st, package, filename, bad) ==
    IF bad # 0
    THEN [pool |-> st.pool, by_name |-> st.by_name,
          exc |-> IF RaisesKeyError(package, RequiredFields[bad])
                  THEN "KeyError" ELSE "MissingControlField",
          field |-> RequiredFields[bad],
          path |-> IF RaisesKeyError(package, RequiredFields[bad])
                   THEN None ELSE filename,
          pkg |-> NonePkg]
    ELSE IF InPool(st.pool, package.SHA256)
    THEN [pool |-> st.pool, by_name |-> st.by_name,
          exc |-> None, field |-> None, path |-> None,
          pkg |-> st.pool[package.SHA256]]
    ELSE Inserted(st, Package("_add_package", package))

\* st = [pool, by_name]; the result carries the state after the call
_add_package(st, package, filename) ==
    Checked(st, package, filename, FirstBadField(package))

----------------------------------------------------------------------------
(* Raw .deb contents handed to adopt, and what apt/deb.py makes of them *)

Debs == {"deb1", "deb2", "deb3", "deb4", "deb5"}

\* hashlib.sha256(deb_data).hexdigest(): distinct contents, distinct digests
Sha256(d) ==
    CASE d = "deb1" -> "h1" [] d = "deb2" -> "h2" [] d = "deb3" -> "h3"
      [] d = "deb4" -> "h4" [] d = "deb5" -> "h5"

MaxRecords == 2         \* most records in one AR archive handed to apt/deb.py

\* An AR archive: whether its first 8 bytes are the AR magic, and its
\* records.  A record has its name, whether its header ends in the file
\* magic 0x60 0x0A (sig), and its body: the text of a debian-binary, or for
\* a tar whether tarfile can open it and its members.  A control member
\* holds a stanza, or nothing (NonePkg).
Member(name, stanza) == [name |-> name, stanza |-> stanza]

Record(name, sig, text, tar, members) ==
    [name |-> name, sig |-> sig, text |-> text, tar |-> tar, members |-> members]

Archive(magic, records) == [kind |-> "archive", magic |-> magic, records |-> records]

DebianBinary(text) == Record("debian-binary", TRUE, text, "n/a", <<>>)

ControlTar(name, members) == Record(name, TRUE, "", "ok", members)

DataTar == Record("data.tar.xz", TRUE, "", "ok", <<>>)

\* the control stanza inside each content of Debs that is a Debian package:
\* deb1 and deb2 are two builds of foo 1.0; deb4's control has no Section
ControlStanza(d) ==
    CASE d = "deb1" -> TagBlockOf(Absent, Absent, "foo", "1.0", "utils", "amd64")
      [] d = "deb2" -> TagBlockOf(Absent, Absent, "foo", "1.0", "libs", "amd64")
      [] d = "deb3" -> TagBlockOf(Absent, Absent, "bar", "2.0", "utils", "amd64")
      [] d = "deb4" -> TagBlockOf(Absent, Absent, "bar", "1.0", Absent, "amd64")

\* the contents of Debs as archives; deb5 is not an AR archive
ArchiveOf(d) ==
    IF d = "deb5"
    THEN Archive(FALSE, <<>>)
    ELSE Archive(TRUE, <<DebianBinary("2.0\n"),
                         ControlTar("control.tar.gz",
                                    <<Member("./control", ControlStanza(d))>>),
                         DataTar>>)

Raised(exc) == [exc |-> exc, block |-> NonePkg]

\* lines 119-126: the first member named ./control or control
ControlMembers(members) ==
    SelectSeq(members, LAMBDA m : m.name \in {"./control", "control"})

\* _read_file_header and the use of its result (lines 101-103, 111-113):
\* fewer than 60 bytes left give None, and None.name raises
\* AttributeError; a header without the file magic raises ValueError
HeaderError(deb, n) ==
    IF Len(deb.records) < n
    THEN Raised("AttributeError")
    ELSE IF ~deb.records[n].sig
    THEN Raised("ValueError")
    ELSE Raised(None)

\* lines 116-126, the body of the second record
ReadControl(body) ==
    IF body.tar # "ok"
    THEN Raised("ReadError")
    ELSE IF ControlMembers(body.members) = <<>>
    THEN Raised("ValueError")
    ELSE IF ControlMembers(body.members)[1].stanza = NonePkg
    \* next() of a generator that yields nothing
    THEN Raised("StopIteration")
    ELSE [exc |-> None, block |-> ControlMembers(body.members)[1].stanza]

\* lines 111-126
SecondRecord(deb, header) ==
    IF header.exc # None
    THEN header
    ELSE IF deb.records[2].name \notin {"control.tar", "control.tar.gz"}
    THEN Raised("ValueError")
    ELSE ReadControl(deb.records[2])

\* lines 101-109
FirstRecord(deb, header) ==
    IF header.exc # None
    THEN header
    ELSE IF deb.records[1].name # "debian-binary"
    THEN Raised("ValueError")
    ELSE IF deb.records[1].text # "2.0\n"
    THEN Raised("ValueError")
    ELSE SecondRecord(deb, HeaderError(deb, 2))

\* deb.extract_control_file: the first stanza of control.tar's control member
extract_control_file(deb) ==
    IF ~deb.magic
    THEN Raised("ValueError")
    ELSE FirstRecord(deb, HeaderError(deb, 1))

\* deb.extract_contents_list: the member names of data.tar, None without one
extract_contents_list(d) ==
    CASE d = "deb1" -> Lines(<<"/usr/bin/foo">>)
      [] d = "deb2" -> Lines(<<>>)
      [] d = "deb3" -> NoContents
      [] d = "deb4" -> Lines(<<"/usr/bin/bar">>)
      [] d = "deb5" -> NoContents

\* package['Package'][0]
FirstLetter(name) == IF name = "foo" THEN "f" ELSE "b"

\* Repository.adopt, lines 203-214 and 226-230: the pool path of a package
PoolPath(package, suffix) ==
    <<"pool",
      IF package.Section \in {"libs", "oldlibs"} THEN "lib" ELSE "",
      FirstLetter(package.Package), package.Package,
      package.Package, package.Version, package.Architecture, suffix>>

\* '/'.join(filename): a non-empty string; the text keeps the prefix kind
JoinPath(path) == IF path[2] = "lib" THEN "pool/lib?/?.deb" ELSE "pool/?/?.deb"

Op(name, path) == [op |-> name, path |-> path]

\* transport.open_write: File opens the file, UrlLib raises
OpenWriteRaises(t) == t = "UrlLib"

\* with self._write_file(filename) as output: output.write(...)
WriteFile(path) == <<Op("open_write", path), Op("write", path), Op("close", path)>>

\* first control field adopt reads that the stanza lacks (KeyError), in the
\* order of lines 206-213
AdoptKeyOrder == <<"Section", "Package", "Version", "Architecture">>

FirstMissingKey(block) ==
    LET bad == {i \in 1..Len(AdoptKeyOrder) : block[AdoptKeyOrder[i]] = Absent}
    IN IF bad = {} THEN 0 ELSE CHOOSE i \in bad : \A j \in bad : i <= j

\* Package.contents() inside the write of the .contents sidecar: the
\* manifest when one was attached, else the lines of the sidecar itself,
\* which was just opened for writing and is empty
ContentsOf(contents_data) ==
    IF ContentsTruthy(contents_data) THEN contents_data ELSE Lines(<<>>)

ContentsOps(contents_data, path) ==
    IF ContentsTruthy(contents_data)
    THEN WriteFile(path)
    ELSE <<Op("open_write", path), Op("exists", path), Op("open_read", path),
           Op("read", path), Op("close_read", path), Op("write", path),
           Op("close", path)>>

AdoptOpsDebOnly(block, contents_data) ==
    WriteFile(PoolPath(block, ".deb"))

\* lines 216-232: the three files, in order
AdoptOps(block, contents_data) ==
    WriteFile(PoolPath(block, ".deb")) \o WriteFile(PoolPath(block, ".deb.dat"))
        \o ContentsOps(contents_data, PoolPath(block, ".deb.contents"))

\* lines 219-224: the Package adopt builds round the stanza
LocalPackage(block, contents_data) ==
    [Package("adopt", block) EXCEPT
        !.Filename = JoinPath(PoolPath(block, ".deb")),
        !._contents = ContentsOf(contents_data)]

\* lines 234-236: local is the Package adopt built, added what _add_package
\* made of it
Registered(local, added, ops) ==
    [pool |-> added.pool, by_name |-> added.by_name, exc |-> added.exc,
     pkg |-> IF added.exc = None THEN local ELSE NonePkg, ops |-> ops]

\* lines 203-236 for the stanza block of a content whose manifest is
\* contents_data
Stored(st, t, block, contents_data) ==
    IF FirstMissingKey(block) # 0
    THEN [pool |-> st.pool, by_name |-> st.by_name, exc |-> "KeyError",
          pkg |-> NonePkg, ops |-> <<>>]
    ELSE IF OpenWriteRaises(t)
    THEN [pool |-> st.pool, by_name |-> st.by_name, exc |-> "NotImplementedError",
          pkg |-> NonePkg, ops |-> <<Op("open_write", PoolPath(block, ".deb"))>>]
    ELSE Registered(LocalPackage(block, contents_data),
                    _add_package(st, LocalPackage(block, contents_data), "buffer"),
                    AdoptOps(block, contents_data))

\* lines 190-196, ctrl being what extract_control_file made of the content
Extracted(st, t, d, sha, ctrl) ==
    IF InPool(st.pool, sha)
    THEN [pool |-> st.pool, by_name |-> st.by_name, exc |-> None,
          pkg |-> st.pool[sha], ops |-> <<>>]
    ELSE IF ctrl.exc # None
    THEN [pool |-> st.pool, by_name |-> st.by_name, exc |-> ctrl.exc,
          pkg |-> NonePkg, ops |-> <<>>]
    ELSE Stored(st, t, [ctrl.block EXCEPT !.SHA256 = sha], extract_contents_list(d))

\* Repository.adopt on an IO-like object whose read() gives the content d
AdoptRaw(st, t, d) ==
    Extracted(st, t, d, Sha256(d), extract_control_file(ArchiveOf(d)))

\* Package objects of another Repository that a caller can hand to adopt
ForeignPackages ==
    {[Package("other", TagBlockOf(h, "pool/x.deb", "foo", "1.0", "utils", "amd64"))
         EXCEPT !.repo = "other"] : h \in {"h1", "h2"}}

DownloadOutcomes == {"ok", "IncorrectChecksum", "FileNotFoundError"}

\* Repository.adopt on a Package; download is what package._download_file does
\* to a foreign package's .deb
AdoptPackage(st, p, download) ==
    [pool |-> st.pool, by_name |-> st.by_name,
     exc |-> IF p.repo = "this" \/ InPool(st.pool, p.SHA256) THEN None
             ELSE IF download = "ok" THEN "AttributeError" ELSE download,
     pkg |-> IF p.repo = "this" THEN p
             ELSE IF InPool(st.pool, p.SHA256) THEN st.pool[p.SHA256]
             ELSE NonePkg,
     ops |-> IF p.repo = "this" \/ InPool(st.pool, p.SHA256) THEN <<>>
             ELSE IF download = "FileNotFoundError"
             THEN <<Op("open_read", <<p.Filename>>)>>
             ELSE <<Op("open_read", <<p.Filename>>), Op("read", <<p.Filename>>),
                    Op("close_read", <<p.Filename>>)>>]

----------------------------------------------------------------------------
(* Release files and the remote side of one Release resolution *)

NoRelease == [kind |-> "None"]

\* FileHash as ReleaseFile.__setitem__ fills it: size from the first table
\* that names the file, one slot per magic field that names it
FileHash(size, md5, sha256) ==
    [size |-> size, md5 |-> md5, sha1 |-> None, sha256 |-> sha256, sha512 |-> None]

IndexName(component, architecture, extension) ==
    <<component, "binary-", architecture, "Packages", extension>>

\* contents a Release (or the data of an InRelease) can have; "empty" is a
\* file without a stanza
ReleaseContents == {"relGz", "relPlain", "relMd5", "empty"}

\* next(tags.read_tag_file(data, tags.ReleaseFile)): the files table of the
\* first stanza; StopIteration when the data holds no stanza
ParseRelease(data) ==
    CASE data = "relGz" ->
           [exc |-> None, release |-> [kind |-> "ReleaseFile", files |->
              [f \in {IndexName(c, "amd64", ".gz") : c \in Components} |->
                  FileHash(100, None, "sum")]]]
      [] data = "relPlain" ->
           [exc |-> None, release |-> [kind |-> "ReleaseFile", files |->
              [f \in {IndexName("main", "amd64", "")} |-> FileHash(100, None, "sum")]]]
      [] data = "relMd5" ->
           [exc |-> None, release |-> [kind |-> "ReleaseFile", files |->
              [f \in {IndexName("main", "amd64", ".gz")} |-> FileHash(100, "sum", None)]]]
      [] data = "empty" -> [exc |-> "StopIteration", release |-> NoRelease]
      [] data = None -> [exc |-> "AttributeError", release |-> NoRelease]

NA == "n/a"

Env(inrelease, data, release, sig, detached) ==
    [inrelease |-> inrelease, data |-> data, release |-> release,
     sig |-> sig, detached |-> detached]

\* what the transport and the verifier answer during one resolution:
\*   inrelease  InRelease is "absent", or the verdict of gpg.verify_file on it
\*   data       the data of a valid InRelease
\*   release    Release is "absent", or its content
\*   sig        Release.gpg is "absent" or "present"
\*   detached   the verdict of the detached verify_file call
\* Files the resolution never asks for are "n/a".
ReleasePart(g) ==
    {Env(NA, NA, "absent", NA, NA)}
    \cup {Env(NA, NA, r, IF g THEN "absent" ELSE NA, NA) : r \in ReleaseContents}
    \cup IF g THEN {Env(NA, NA, r, "present", v) :
                       r \in ReleaseContents, v \in {"valid", "invalid", "raises"}}
              ELSE {}

Envs(g) ==
    IF ~g THEN ReleasePart(FALSE)
    ELSE {Env("raises", NA, NA, NA, NA)}
         \cup {Env("valid", d, NA, NA, NA) : d \in ReleaseContents \ {"empty"}}
         \cup {[e EXCEPT !.inrelease = "absent"] : e \in ReleasePart(TRUE)}
         \cup {[e EXCEPT !.inrelease = "invalid"] : e \in ReleasePart(TRUE)}
         \cup {[e EXCEPT !.inrelease = "valid", !.data = "empty"] :
                  e \in ReleasePart(TRUE)}

RelPath(name, file) == <<"dists", name, file>>

Out(exc, val, cached, ops) ==
    [exc |-> exc, val |-> val, release_data |-> cached, ops |-> ops]

\* lines 176-189: what happens to InRelease
InReleaseOps(g, name, env) ==
    IF ~g THEN <<>>
    ELSE IF env.inrelease = "absent"
    THEN <<Op("open_read", RelPath(name, "InRelease"))>>
    ELSE IF env.inrelease = "raises"
    THEN <<Op("open_read", RelPath(name, "InRelease")),
           Op("verify", RelPath(name, "InRelease"))>>
    ELSE <<Op("open_read", RelPath(name, "InRelease")),
           Op("verify", RelPath(name, "InRelease")),
           Op("close_read", RelPath(name, "InRelease"))>>

\* lines 197-202: what happens to Release and Release.gpg under a verifier
DetachedOps(name, env) ==
    IF env.sig = "absent"
    THEN <<Op("open_read", RelPath(name, "Release")),
           Op("open_read", RelPath(name, "Release.gpg"))>>
    ELSE <<Op("open_read", RelPath(name, "Release")),
           Op("open_read", RelPath(name, "Release.gpg")),
           Op("read", RelPath(name, "Release")),
           Op("close_read", RelPath(name, "Release.gpg")),
           Op("verify", RelPath(name, "Release"))>>
         \o IF env.detached = "raises" THEN <<>>
            ELSE <<Op("close_read", RelPath(name, "Release"))>>

PlainOps(name) ==
    <<Op("open_read", RelPath(name, "Release")), Op("read", RelPath(name, "Release")),
      Op("close_read", RelPath(name, "Release"))>>

\* line 210 on the data that line 204 read
Parsed(dist, parsed, ops) ==
    IF parsed.exc # None
    THEN Out(parsed.exc, NoRelease, dist.release_data, ops)
    ELSE Out(None, parsed.release, parsed.release, ops)

ResolvedWithoutVerdict(g, name, dist, env, release_data, inOps) ==
    IF env.release \in ReleaseContents
    THEN Parsed(dist, ParseRelease(env.release), inOps \o PlainOps(name))
    ELSE Out("FileNotFoundError", NoRelease, dist.release_data, inOps)

\* lines 192-212; release_data is the local that the InRelease step left
\* (None, or the data of a valid InRelease), inOps what that step did
Resolved(g, name, dist, env, release_data, inOps) ==
    IF g /\ env.inrelease = "raises"
    THEN Out("VerifierError", NoRelease, dist.release_data, inOps)
    ELSE IF release_data \notin {None, "empty"}
    \* line 192 is skipped, and with it the parse and the assignment
    THEN Out(None, dist.release_data, dist.release_data, inOps)
    ELSE IF env.release = "absent"
    THEN Out("FileNotFoundError", NoRelease, dist.release_data,
             inOps \o <<Op("open_read", RelPath(name, "Release"))>>)
    ELSE IF ~g
    THEN Parsed(dist, ParseRelease(env.release), PlainOps(name))
    ELSE IF env.sig = "absent"
    THEN Out("FileNotFoundError", NoRelease, dist.release_data,
             inOps \o DetachedOps(name, env))
    ELSE IF env.detached = "raises"
    THEN Out("VerifierError", NoRelease, dist.release_data,
             inOps \o DetachedOps(name, env))
    \* the verdict is dropped, and release_data is still what the InRelease
    \* step left: None or empty, which line 210 cannot parse
    ELSE Out(ParseRelease(release_data).exc, NoRelease, dist.release_data,
             inOps \o DetachedOps(name, env))

\* Distribution._get_release_file for the distribution record dist.
\* Result: the exception or the value returned, release_data afterwards, and
\* the transport operations in order.
_get_release_file(g, name, dist, env) ==
    IF dist.release_data # NoRelease
    THEN Out(None, dist.release_data, dist.release_data, <<>>)
    ELSE Resolved(g, name, dist, env,
                  IF g /\ env.inrelease = "valid" THEN env.data ELSE None,
                  InReleaseOps(g, name, env))

NeverCached(dist) == FALSE

\* self._exists is not None
ExistsCached(dist) == dist._exists # None

ComputedPropagates(dist, r) ==
    IF r.exc # None
    THEN [exc |-> r.exc, val |-> None,
          dist |-> [dist EXCEPT !.release_data = r.release_data], ops |-> r.ops]
    ELSE [exc |-> None, val |-> IF r.val # NoRelease THEN "True" ELSE "False",
          dist |-> [dist EXCEPT !.release_data = r.release_data,
                                !._exists = IF r.val # NoRelease
                                            THEN "True" ELSE "False"],
          ops |-> r.ops]

\* lines 74-79, r being what _get_release_file did
Computed(dist, r) ==
    IF r.exc \notin {None, "FileNotFoundError"}
    THEN [exc |-> r.exc, val |-> None,
          dist |-> [dist EXCEPT !.release_data = r.release_data], ops |-> r.ops]
    ELSE [exc |-> None,
          val |-> IF r.exc = None /\ r.val # NoRelease THEN "True" ELSE "False",
          dist |-> [dist EXCEPT !.release_data = r.release_data,
                                !._exists = IF r.exc = None /\ r.val # NoRelease
                                            THEN "True" ELSE "False"],
          ops |-> r.ops]

\* Distribution.exists: the value returned is _exists afterwards
exists(g, name, dist, env) ==
    IF ExistsCached(dist)
    THEN [exc |-> None, val |-> dist._exists, dist |-> dist, ops |-> <<>>]
    ELSE Computed(dist, _get_release_file(g, name, dist, env))

\* Distribution(parent, name): the class defaults
NewDistribution == [_exists |-> None, release_data |-> NoRelease, _packages |-> FALSE]

----------------------------------------------------------------------------
(* AbstractRepoObject._download_file *)

Ellipsis == "<Ellipsis>"

HashOrder == <<"sha256", "sha512", "sha1", "md5">>

\* the loop of lines 154-159: the first name whose slot is not Ellipsis
\* (an unset slot of a FileHash is None)
SelectedHash(hashes) ==
    LET set == {i \in 1..Len(HashOrder) : hashes[HashOrder[i]] # Ellipsis}
    IN HashOrder[CHOOSE i \in set : \A j \in set : i <= j]

\* A remote file as the download sees it: whether it is there, whether it has
\* any byte, the digest of its raw bytes under each algorithm, their count,
\* and the stanzas its (decoded) text holds.
Remote(file, raw, sha256, md5, size, stanzas) ==
    [file |-> file, raw |-> raw, sha256 |-> sha256, sha512 |-> "sum",
     sha1 |-> "sum", md5 |-> md5, size |-> size, stanzas |-> stanzas]

ReadOps(path) == <<Op("open_read", path), Op("read", path), Op("close_read", path)>>

\* A buffer of bytes: the stanzas its text holds, and whether that text is
\* still inside a gzip stream
Bytes(gz, text) == [kind |-> "bytes", gz |-> gz, text |-> text]
NoBytes == [kind |-> "None"]

\* the message of an exception, and the path it names
NoMsg == [text |-> None, path |-> <<>>]

\* the bytes stream.read() gives for the file at path: a file named *.gz is
\* one whole gzip stream
RawBytes(path, remote) ==
    IF remote.raw = "empty"
    THEN Bytes(FALSE, <<>>)
    ELSE Bytes(path[Len(path)] = ".gz", remote.stanzas)

\* line 176 over the blocks of raw: decoder(block) if decoder else block.
\* zipper: the state of the module's one decompressor, "fresh" or "eof"; at
\* "eof" decompress() gives no bytes.
Decode(decoder, zipper, raw) ==
    IF raw.text = <<>> /\ ~raw.gz
    THEN [exc |-> None, data |-> raw, zipper |-> zipper]
    ELSE IF decoder = None
    THEN [exc |-> None, data |-> raw, zipper |-> zipper]
    ELSE IF decoder = Ellipsis
    THEN [exc |-> "TypeError", data |-> NoBytes, zipper |-> zipper]
    ELSE IF zipper = "eof"
    THEN [exc |-> None, data |-> Bytes(FALSE, <<>>), zipper |-> zipper]
    ELSE IF raw.gz
    THEN [exc |-> None, data |-> Bytes(FALSE, raw.text), zipper |-> "eof"]
    ELSE [exc |-> "zlib.error", data |-> NoBytes, zipper |-> zipper]

VerifiedSizeOnly(hashes, hash_name, remote, dec, path) ==
    IF dec.exc # None
    THEN [exc |-> dec.exc, data |-> NoBytes, zipper |-> dec.zipper,
          ops |-> ReadOps(path), msg |-> NoMsg]
    ELSE IF remote.size = hashes.size
    THEN [exc |-> None, data |-> dec.data, zipper |-> dec.zipper,
          ops |-> ReadOps(path), msg |-> NoMsg]
    ELSE [exc |-> "IncorrectChecksum", data |-> NoBytes, zipper |-> dec.zipper,
          ops |-> ReadOps(path),
          msg |-> [text |-> "Invalid checksum for", path |-> path]]

VerifiedNothing(hashes, hash_name, remote, dec, path) ==
    [exc |-> dec.exc, data |-> dec.data, zipper |-> dec.zipper,
     ops |-> ReadOps(path), msg |-> NoMsg]

\* lines 172-185 once the file is open, dec being what the decoder made of
\* the blocks: the digest and the count are those of the raw bytes
Verified(hashes, hash_name, remote, dec, path) ==
    IF dec.exc # None
    THEN [exc |-> dec.exc, data |-> NoBytes, zipper |-> dec.zipper,
          ops |-> ReadOps(path), msg |-> NoMsg]
    ELSE IF remote[hash_name] = hashes[hash_name] /\ remote.size = hashes.size
    THEN [exc |-> None, data |-> dec.data, zipper |-> dec.zipper,
          ops |-> ReadOps(path), msg |-> NoMsg]
    ELSE [exc |-> "IncorrectChecksum", data |-> NoBytes, zipper |-> dec.zipper,
          ops |-> ReadOps(path),
          msg |-> [text |-> "Invalid checksum for", path |-> path]]

\* decoder: None, "gzip" (_G_ZIPPER.decompress) or Ellipsis.  The tests of
\* lines 166-170 compare with Ellipsis; the slots of a FileHash hold None, a
\* digest or a length, so they raise nothing.
_download_file(path, hashes, decoder, remote, zipper) ==
    IF remote.file = "absent"
    THEN [exc |-> "FileNotFoundError", data |-> NoBytes, zipper |-> zipper,
          ops |-> <<Op("open_read", path)>>, msg |-> NoMsg]
    ELSE Verified(hashes, SelectedHash(hashes), remote,
                  Decode(decoder, zipper, RawBytes(path, remote)), path)

----------------------------------------------------------------------------
(* PackageList.add and Distribution.package_list *)

\* what a caller can pass to adopt: an IO-like object over some content
IO(d) == [kind |-> "IO", content |-> d]

adopt(st, t, input, download) ==
    IF input.kind = "Package"
    THEN AdoptPackage(st, input, download)
    ELSE AdoptRaw(st, t, input.content)

HashesKeep(hashes, package) == hashes

\* self._hashes.add(package['SHA256'])
HashesAdd(hashes, package) == hashes \cup {package.SHA256}

\* the hashes of the PackageList of a distribution: _hashes is an attribute
\* of the class, so every list holds the one set
ListHashes(name) == _hashes

\* line 42, r being what adopt did
Added(st, r) ==
    [pool |-> r.pool, by_name |-> r.by_name,
     hashes |-> IF r.exc = None THEN HashesAdd(st.hashes, r.pkg) ELSE st.hashes,
     exc |-> r.exc, pkg |-> r.pkg, ops |-> r.ops]

\* PackageList.add; st = [pool, by_name, hashes]
add(st, t, input, download) ==
    Added(st, adopt([pool |-> st.pool, by_name |-> st.by_name], t, input, download))

Halt(st, exc) ==
    [pool |-> st.pool, by_name |-> st.by_name, hashes |-> st.hashes, exc |-> exc]

\* lines 143-144 for one stanza, imported being what _add_package did
Listed(st, t, imported) ==
    IF imported.exc # None
    THEN Halt(st, imported.exc)
    ELSE add([pool |-> imported.pool, by_name |-> imported.by_name,
              hashes |-> st.hashes], t, imported.pkg, "ok")

StoppedAfterFirst(now, t, rest) == Halt(now, now.exc)

\* the loop of lines 141-144 over the stanzas that read_tag_file yields;
\* the argument package['Filename'] is read before _add_package is entered
RECURSIVE ImportStanzas(_, _, _)
Continued(now, t, rest) ==
    IF now.exc # None THEN Halt(now, now.exc) ELSE ImportStanzas(now, t, rest)

ImportStanzas(st, t, stanzas) ==
    IF stanzas = <<>>
    THEN Halt(st, None)
    ELSE IF RaisesKeyError(Head(stanzas), "Filename")
    THEN Halt(st, "KeyError")
    ELSE Continued(Listed(st, t, _add_package([pool |-> st.pool,
                                               by_name |-> st.by_name],
                                              Head(stanzas),
                                              Head(stanzas).Filename)),
                   t, Tail(stanzas))

Same(exc, d, st, zipper, ops) ==
    [exc |-> exc, dist |-> d, pool |-> st.pool, by_name |-> st.by_name,
     hashes |-> st.hashes, zipper |-> zipper, ops |-> ops, msg |-> NoMsg]

\* lines 141-146, got being what the download gave
Imported(ex, got, imp) ==
    [exc |-> imp.exc, dist |-> ex.dist, pool |-> imp.pool, by_name |-> imp.by_name,
     hashes |-> imp.hashes, zipper |-> got.zipper, ops |-> ex.ops \o got.ops,
     msg |-> NoMsg]

\* line 141: read_tag_file(contents) decodes the buffer as text
Downloaded(ex, st, t, got) ==
    IF got.exc # None
    THEN [Same(got.exc, ex.dist, st, got.zipper, ex.ops \o got.ops)
             EXCEPT !.msg = got.msg]
    ELSE IF got.data.gz
    THEN Same("UnicodeDecodeError", ex.dist, st, got.zipper, ex.ops \o got.ops)
    ELSE Imported(ex, got, ImportStanzas(st, t, got.data.text))

\* lines 126-139, files being the table of the cached release file
Looked(name, ex, files, gz, plain, remote, st, t, zipper) ==
    IF gz \notin DOMAIN files /\ plain \notin DOMAIN files
    \* file_data was never bound
    THEN Same("UnboundLocalError", ex.dist, st, zipper, ex.ops)
    ELSE Downloaded(ex, st, t,
                    _download_file(<<"dists", name>>
                                       \o (IF gz \in DOMAIN files THEN gz ELSE plain),
                                   files[IF gz \in DOMAIN files THEN gz ELSE plain],
                                   IF gz \in DOMAIN files THEN "gzip" ELSE Ellipsis,
                                   remote, zipper))

\* lines 120-123, ex being what exists() did
Existing(name, ex, component, architecture, remote, st, t, zipper) ==
    IF ex.exc # None \/ ex.val = "False"
    THEN Same(ex.exc, ex.dist, st, zipper, ex.ops)
    ELSE Looked(name, ex, ex.dist.release_data.files,
                IndexName(component, architecture, ".gz"),
                IndexName(component, architecture, ""), remote, st, t, zipper)

\* Distribution.package_list.  Result: the exception or None (the list is
\* returned), the distribution, pool state and decompressor afterwards.
package_list(g, t, name, dist, component, architecture, env, remote, st, zipper) ==
    IF dist._packages
    THEN Same(None, dist, st, zipper, <<>>)
    ELSE Existing(name, exists(g, name, [dist EXCEPT !._packages = TRUE], env),
                  component, architecture, remote, st, t, zipper)

----------------------------------------------------------------------------
(* Repository.scan_distributions *)

\* what self._list_dir(['dists']) comes to: NotImplementedError
\* ("Unsupported"), FileNotFoundError ("NotFound"), or a DirectoryListing
\* with its directories
NoListing == [outcome |-> None, directories |-> {}]

ScanNames == DistNames \cup {"unstable"}

Listings ==
    {[outcome |-> "NotFound", directories |-> {}]}
    \cup {[outcome |-> "listed", directories |-> ds] : ds \in SUBSET ScanNames}

\* transport.list_directory: UrlLib raises NotImplementedError, File raises
\* FileNotFoundError for a missing directory and lists an existing one
list_directory(t, remote) ==
    IF t = "UrlLib" THEN [outcome |-> "Unsupported", directories |-> {}] ELSE remote

ScanStartsAfresh(dists, listing) ==
    [exc |-> None,
     val |-> IF listing.outcome = "Unsupported" THEN "False" ELSE "True",
     dists |-> [n \in listing.directories |-> NewDistribution]]

\* lines 131-142; Repository.distribution (lines 93-94) makes a Distribution
\* for a name that is not known
scan_distributions(dists, listing) ==
    [exc |-> None,
     val |-> IF listing.outcome = "Unsupported" THEN "False" ELSE "True",
     dists |-> IF listing.outcome = "listed"
               THEN [n \in DOMAIN dists \cup listing.directories |->
                        IF n \in DOMAIN dists THEN dists[n] ELSE NewDistribution]
               ELSE dists]

----------------------------------------------------------------------------
(* apt/tags: read_tag_file and TagBlock.__str__.  A str is the sequence of *)
(* its characters, a TagBlock its dict (in insertion order) and its        *)
(* order_first list; a plain TagBlock has no magic and no order_last name. *)

NL == "\n"

MaxLines == 3           \* most lines in one text handed to read_tag_file

\* the characters str.strip() and str.rstrip() remove
Whitespace == {" ", "\t", NL}

\* s.find(c) + 1
FirstIndex(s, c) ==
    IF \E i \in 1..Len(s) : s[i] = c
    THEN CHOOSE i \in 1..Len(s) : s[i] = c /\ \A j \in 1..(i - 1) : s[j] # c
    ELSE 0

\* s.split('\n')
RECURSIVE SplitLines(_)
SplitLines(s) ==
    IF FirstIndex(s, NL) = 0
    THEN <<s>>
    ELSE <<SubSeq(s, 1, FirstIndex(s, NL) - 1)>>
             \o SplitLines(SubSeq(s, FirstIndex(s, NL) + 1, Len(s)))

\* s.rstrip()
RStrip(s) ==
    IF \A i \in 1..Len(s) : s[i] \in Whitespace
    THEN <<>>
    ELSE SubSeq(s, 1, CHOOSE i \in 1..Len(s) :
                         /\ s[i] \notin Whitespace
                         /\ \A j \in (i + 1)..Len(s) : s[j] \in Whitespace)

\* s.strip()
Strip(s) ==
    IF \A i \in 1..Len(s) : s[i] \in Whitespace
    THEN <<>>
    ELSE SubSeq(RStrip(s),
                CHOOSE i \in 1..Len(s) :
                   /\ s[i] \notin Whitespace
                   /\ \A j \in 1..(i - 1) : s[j] \in Whitespace,
                Len(RStrip(s)))

\* TagBlock()
EmptyBlock == [dict |-> <<>>, order_first |-> <<>>]

\* TagBlock.__contains__
Contains(b, key) == \E i \in 1..Len(b.dict) : b.dict[i].key = key

\* TagBlock.__getitem__ of a key the dict holds
GetItem(b, key) == b.dict[CHOOSE i \in 1..Len(b.dict) : b.dict[i].key = key].value

\* TagBlock.__setitem__ of a TagBlock without magic or order_last names
SetItem(b, key, value) ==
    [dict |-> IF Contains(b, key)
              THEN [i \in 1..Len(b.dict) |->
                       IF b.dict[i].key = key
                       THEN [key |-> key, value |-> value] ELSE b.dict[i]]
              ELSE Append(b.dict, [key |-> key, value |-> value]),
     order_first |-> IF \E i \in 1..Len(b.order_first) : b.order_first[i] = key
                     THEN b.order_first ELSE Append(b.order_first, key)]

\* the local key of read_tag_file: None, or the name of the last header
NoKey == [isNone |-> TRUE, name |-> <<>>]
Key(name) == [isNone |-> FALSE, name |-> name]

\* lines 41-48, a line that begins with a space
Continuation(st, line) ==
    IF st.key.isNone \/ st.key.name = <<>>
    THEN st
    ELSE IF ~Contains(st.tags, st.key.name)
    THEN [st EXCEPT !.tags = SetItem(st.tags, st.key.name, Strip(line))]
    ELSE [st EXCEPT !.tags = SetItem(st.tags, st.key.name,
                                     GetItem(st.tags, st.key.name)
                                         \o <<NL>> \o Strip(line))]

\* lines 50-60, a header line; colon is the place of its first ':'
Header(st, line, colon) ==
    IF colon = 0
    THEN [st EXCEPT !.exc = "ValueError"]
    ELSE IF Strip(SubSeq(line, colon + 1, Len(line))) = <<>>
    THEN [st EXCEPT !.key = Key(SubSeq(line, 1, colon - 1))]
    ELSE [st EXCEPT !.key = Key(SubSeq(line, 1, colon - 1)),
                    !.tags = SetItem(st.tags, SubSeq(line, 1, colon - 1),
                                     Strip(SubSeq(line, colon + 1, Len(line))))]

\* lines 31-60 for one line after line.rstrip()
ReadLine(st, line) ==
    IF st.exc # None
    THEN st
    ELSE IF line = <<>>
    THEN [st EXCEPT !.blocks = IF Len(st.tags.dict) > 0
                               THEN Append(st.blocks, st.tags) ELSE st.blocks,
                    !.tags = EmptyBlock, !.key = NoKey]
    ELSE IF line[1] = " "
    THEN Continuation(st, line)
    ELSE Header(st, line, FirstIndex(line, ":"))

RECURSIVE ReadLines(_, _)
ReadLines(st, lines) ==
    IF lines = <<>>
    THEN st
    ELSE ReadLines(ReadLine(st, RStrip(Head(lines))), Tail(lines))

\* lines 62-63: the block the stream ends in
Yielded(st) ==
    [exc |-> st.exc,
     blocks |-> IF st.exc = None /\ Len(st.tags.dict) > 0
                THEN Append(st.blocks, st.tags) ELSE st.blocks]

\* list(read_tag_file(data)): the blocks yielded, and ValueError when a
\* header has no ':'
read_tag_file(data) ==
    Yielded(ReadLines([tags |-> EmptyBlock, key |-> NoKey, blocks |-> <<>>,
                       exc |-> None],
                      SplitLines(data)))

\* value.replace('\n', '\n ')
RECURSIVE Indent(_)
Indent(value) ==
    IF value = <<>> THEN <<>>
    ELSE IF Head(value) = NL THEN <<NL, " ">> \o Indent(Tail(value))
    ELSE <<Head(value)>> \o Indent(Tail(value))

WritePropertyOnOneLine(b, key) == key \o <<":", " ">> \o GetItem(b, key)

\* TagBlock._write_property of a key whose value is a str
_write_property(b, key) ==
    IF FirstIndex(GetItem(b, key), NL) # 0
    THEN key \o <<":", NL, " ">> \o Indent(GetItem(b, key))
    ELSE key \o <<":", " ">> \o GetItem(b, key)

\* '\n'.join(elements)
RECURSIVE Join(_)
Join(elements) ==
    IF elements = <<>> THEN <<>>
    ELSE IF Len(elements) = 1 THEN elements[1]
    ELSE elements[1] \o <<NL>> \o Join(Tail(elements))

\* lines 64-81: the keys in the order they are written, first those of
\* order_first the dict holds, then the other keys of the dict
KeysDone(b) ==
    SelectSeq(b.order_first, LAMBDA k : Contains(b, k))
        \o SelectSeq([i \in 1..Len(b.dict) |-> b.dict[i].key],
                     LAMBDA k : \A i \in 1..Len(b.order_first) : b.order_first[i] # k)

\* TagBlock.__str__
__str__(b) == Join([i \in 1..Len(KeysDone(b)) |-> _write_property(b, KeysDone(b)[i])])

----------------------------------------------------------------------------
(* apt/tags: the checksum tables of a ReleaseFile.  A table is the        *)
(* sequence of its lines after x.split(): <<checksum, size, filename>>.   *)

MaxTableLen == 2        \* most lines in one checksum table

\* ReleaseFile.magic after ReleaseFile.__init__
ReleaseMagic == <<"MD5Sum", "SHA1", "SHA256", "SHA512">>

\* FileHash.__setattr__: key.lower().replace('sum', '')
Slot(key) ==
    CASE key = "MD5Sum" -> "md5" [] key = "SHA1" -> "sha1"
      [] key = "SHA256" -> "sha256" [] key = "SHA512" -> "sha512"

\* lines 44-48 for one line of the table
SetLine(files, key, line) ==
    IF line[3] \in DOMAIN files
    THEN [files EXCEPT ![line[3]][Slot(key)] = line[1]]
    ELSE (line[3] :> [FileHash(line[2], None, None) EXCEPT ![Slot(key)] = line[1]])
             @@ files

\* ReleaseFile.__setitem__ of a magic key
RECURSIVE ReleaseSetItem(_, _, _)
ReleaseSetItem(files, key, table) ==
    IF table = <<>> THEN files
    ELSE ReleaseSetItem(SetLine(files, key, Head(table)), key, Tail(table))

\* ReleaseFile.__getitem__ of a magic key.  Line 59, key not in info: a
\* FileHash has __getitem__ but neither __contains__ nor __iter__, so the
\* test runs info[0], whose key.lower() raises AttributeError for the first
\* FileHash of the table; line 62 is never reached.
ReleaseGetItem(files, key) ==
    IF DOMAIN files = {}
    THEN [exc |-> None, val |-> None]
    ELSE [exc |-> "AttributeError", val |-> None]

----------------------------------------------------------------------------
(* apt/transports/urllib.py.  A stream urlopen returned is the number of  *)
(* the urlopen call that made it; 0 stands for None.                       *)

MaxStreams == 3         \* most urlopen calls that succeed in one run

\* the class defaults of UrlLib; opened counts the streams urlopen gave,
\* closed holds those that were closed, given those open_read returned,
\* returned is what the last open_read returned
NewUrlLib ==
    [_last_uri |-> None, _last_req |-> 0, _exists |-> <<>>,
     opened |-> 0, closed |-> {}, given |-> {}, returned |-> 0]

\* lines 32-35, 66-68, 83-86 and 98-101
CloseLast(u) ==
    IF u._last_req # 0
    THEN [u EXCEPT !.closed = @ \cup {u._last_req}, !._last_req = 0,
                   !._last_uri = None]
    ELSE u

\* lines 37-50, c being the transport after lines 32-35; found is whether
\* urlopen(uri) succeeds
ExistsLookup(c, uri, found) ==
    IF uri \in DOMAIN c._exists
    THEN [u |-> c, exc |-> None, val |-> IF c._exists[uri] THEN "True" ELSE "False"]
    ELSE IF found
    THEN [u |-> [c EXCEPT !._last_req = c.opened + 1, !.opened = c.opened + 1,
                          !._last_uri = uri, !._exists = (uri :> TRUE) @@ @],
          exc |-> None, val |-> "True"]
    ELSE [u |-> [c EXCEPT !._exists = (uri :> FALSE) @@ @],
          exc |-> None, val |-> "False"]

\* UrlLib.exists
UrlLib_exists(u, uri, found) == ExistsLookup(CloseLast(u), uri, found)

\* lines 70-73, c being the transport after lines 66-68
OpenNew(c, uri, found) ==
    IF found
    THEN [u |-> [c EXCEPT !.opened = c.opened + 1, !.returned = c.opened + 1,
                          !.given = @ \cup {c.opened + 1}],
          exc |-> None, val |-> None]
    ELSE [u |-> [c EXCEPT !.returned = 0], exc |-> "FileNotFoundError", val |-> None]

\* UrlLib.open_read: line 64 returns the cached stream and leaves it cached
UrlLib_open_read(u, uri, found) ==
    IF u._last_req # 0 /\ u._last_uri = uri
    THEN [u |-> [u EXCEPT !.returned = u._last_req, !.given = @ \cup {u._last_req}],
          exc |-> None, val |-> None]
    ELSE OpenNew(CloseLast(u), uri, found)

\* UrlLib.open_write
UrlLib_open_write(u, uri) ==
    [u |-> CloseLast(u), exc |-> "NotImplementedError", val |-> None]

----------------------------------------------------------------------------
(* Inputs of the calls *)

\* stanzas read_tag_file can yield from a Packages index: a field is there
\* with a non-empty value or not at all.  The first two are different files
\* that both claim to be foo 1.0.
IndexStanzas ==
    {TagBlockOf("h1", "a.deb", "foo", "1.0", "utils", "amd64"),
     TagBlockOf("h2", "a.deb", "foo", "1.0", "utils", "amd64"),
     TagBlockOf("h2", "a.deb", "bar", Absent, "utils", "amd64")}

RECURSIVE SeqsUpTo(_, _)
SeqsUpTo(S, n) ==
    IF n = 0 THEN {<<>>}
    ELSE LET shorter == SeqsUpTo(S, n - 1)
         IN shorter \cup {Append(q, x) : q \in shorter, x \in S}

Indexes == SeqsUpTo(IndexStanzas, MaxIndexLen)

OneStanza == <<TagBlockOf("h1", "a.deb", "foo", "1.0", "utils", "amd64")>>

NoRemote == Remote(NA, NA, NA, NA, 0, <<>>)

\* the Packages[.gz] file a package_list call can find: missing, without a
\* byte, with a digest or a length other than declared, or as declared
BadRemotes ==
    {Remote("absent", "empty", "sum", "sum", 100, <<>>),
     Remote("present", "empty", "other", "other", 0, <<>>),
     Remote("present", "data", "other", "sum", 100, OneStanza),
     Remote("present", "data", "sum", "sum", 99, OneStanza)}

Remotes == BadRemotes \cup {Remote("present", "data", "sum", "sum", 100, idx) :
                               idx \in Indexes \ {<<>>}}

FewRemotes == BadRemotes \cup {Remote("present", "data", "sum", "sum", 100, OneStanza)}

\* stanzas a caller can hand to add_package: TagBlocks built by hand may
\* also hold empty values
WellFormed ==
    {TagBlockOf(h, "a.deb", nv[1], nv[2], "utils", "amd64") :
        h \in {"h1", "h2"},
        nv \in {<<"foo", "1.0">>, <<"foo", "2.0">>, <<"bar", "1.0">>}}

Damaged ==
    {[TagBlockOf("h1", "a.deb", "foo", "1.0", "utils", "amd64") EXCEPT ![f] = v] :
        f \in {"SHA256", "Filename", "Package", "Version"}, v \in {Absent, ""}}

AddInputs == WellFormed \cup Damaged

SourceName == "Packages"

NoEnv == Env(NA, NA, NA, NA, NA)

\* a resolution where nothing is wrong: Release is there and, with a
\* verifier, so is a Release.gpg that verifies
PlainEnvs(g) ==
    {Env(IF g THEN "absent" ELSE NA, NA, r, IF g THEN "present" ELSE NA,
         IF g THEN "valid" ELSE NA) : r \in {"absent", "relGz"}}

----------------------------------------------------------------------------
(* The calls *)

\* what a caller of apt.tags holds: the text last parsed or written, the
\* blocks last parsed, the block last written, the text of the write before
\* (once a block that was parsed from a written text is written again)
NoTags == [text |-> <<>>, blocks |-> <<>>, block |-> EmptyBlock,
           first |-> <<>>, again |-> FALSE]

\* lines of a stanza file: headers with and without a value, with spaces
\* round the value and a ':' in it, a header with an empty name,
\* continuation lines (one a '.', one indented deeper and with a space at
\* its end), the blank line, and a line that is no header
TagLines ==
    {<<"A", ":", " ", "x">>, <<"A", ":">>,
     <<"B", ":", " ", " ", "x", ":", "y">>, <<":", " ", "x">>,
     <<" ", ".">>, <<" ", " ", "y", " ">>, <<>>, <<"x">>}

RECURSIVE TextsUpTo(_)
TextsUpTo(n) ==
    IF n = 1 THEN TagLines
    ELSE TextsUpTo(n - 1)
            \cup {t \o <<NL>> \o l : t \in TextsUpTo(n - 1), l \in TagLines}

Texts == TextsUpTo(MaxLines)

\* checksum tables a caller can write: lines naming one of two files
TableFiles == <<"main/Packages", "main/Release">>

TableLines == {<<hex, 123, TableFiles[i]>> : hex \in {"aa", "bb"}, i \in 1..2}

Tables == SeqsUpTo(TableLines, MaxTableLen) \ {<<>>}

\* records an archive handed to extract_control_file can hold
ArchiveRecords ==
    {DebianBinary("2.0\n"), DebianBinary("3.0\n"),
     [DebianBinary("2.0\n") EXCEPT !.sig = FALSE],
     ControlTar("control.tar.gz", <<>>),
     ControlTar("control.tar", <<Member("./md5sums", NonePkg)>>),
     ControlTar("control.tar.gz", <<Member("./md5sums", NonePkg),
                                    Member("./control", ControlStanza("deb1"))>>),
     ControlTar("control.tar", <<Member("control", ControlStanza("deb3"))>>),
     ControlTar("control.tar.gz", <<Member("./control", NonePkg)>>),
     [ControlTar("control.tar.gz", <<>>) EXCEPT !.tar = "garbage"],
     DataTar}

Archives ==
    {Archive(magic, records) :
        magic \in BOOLEAN, records \in SeqsUpTo(ArchiveRecords, MaxRecords)}

RetNone ==
    [op |-> "init", dist |-> None, component |-> None, input |-> NonePkg,
     env |-> NoEnv, remote |-> NoRemote,
     exc |-> None, field |-> None, path |-> None, pkg |-> NonePkg,
     val |-> None, ops |-> <<>>, msg |-> NoMsg,
     file |-> <<>>, hashes |-> FileHash(0, None, None), decoder |-> None,
     data |-> NoBytes, listing |-> NoListing, tags |-> NoTags,
     files |-> <<>>, lines |-> <<>>]

Init ==
    /\ gpg \in BOOLEAN
    /\ transport \in {"File", "UrlLib"}
    /\ _pool = <<>>
    /\ _pool_by_package = <<>>
    /\ _distributions = <<>>
    /\ _hashes = {}
    /\ _G_ZIPPER = "fresh"
    /\ listed = {}
    /\ ret = RetNone
    /\ urllib = NewUrlLib

Repo == [pool |-> _pool, by_name |-> _pool_by_package]

\* Repository._add_package(stanza, SourceName), called on the repository
AddPackageDone(stanza, r) ==
    /\ _pool' = r.pool
    /\ _pool_by_package' = r.by_name
    /\ ret' = [RetNone EXCEPT !.op = "add_package", !.input = stanza,
                  !.exc = r.exc, !.field = r.field, !.path = r.path,
                  !.pkg = r.pkg]
    /\ UNCHANGED <<urllib, gpg, transport, _distributions, _hashes, _G_ZIPPER, listed>>

AddPackageCall(stanza) ==
    AddPackageDone(stanza, _add_package(Repo, stanza, SourceName))

\* Package objects a caller can hold: pooled ones, the one the last call
\* returned, and Packages of another repository
HeldPackages ==
    {_pool[h] : h \in DOMAIN _pool}
    \cup (IF ret.pkg.kind = "Package" THEN {ret.pkg} ELSE {})
    \cup ForeignPackages

RawInputs == {IO(d) : d \in Debs}

AdoptInputs == RawInputs \cup HeldPackages

\* the download outcomes that matter to adopt(input): one unless the input
\* is a foreign Package that is not pooled
Downloads(input) ==
    IF input.kind = "Package" /\ input.repo # "this" /\ ~InPool(_pool, input.SHA256)
    THEN DownloadOutcomes ELSE {"ok"}

\* Repository.adopt(input)
AdoptDone(input, r) ==
    /\ _pool' = r.pool
    /\ _pool_by_package' = r.by_name
    /\ ret' = [RetNone EXCEPT !.op = "adopt", !.input = input,
                  !.exc = r.exc, !.pkg = r.pkg, !.ops = r.ops]
    /\ UNCHANGED <<urllib, gpg, transport, _distributions, _hashes, _G_ZIPPER, listed>>

AdoptCall(input, download) ==
    AdoptDone(input, adopt(Repo, transport, input, download))

\* Repository.distribution(name)
DistributionCall(name) ==
    /\ _distributions' = IF name \in DOMAIN _distributions
                         THEN _distributions
                         ELSE (name :> NewDistribution) @@ _distributions
    /\ ret' = [RetNone EXCEPT !.op = "distribution", !.dist = name]
    /\ UNCHANGED <<urllib, gpg, transport, _pool, _pool_by_package, _hashes, _G_ZIPPER,
                   listed>>

\* Distribution.exists() on a known distribution
ExistsDone(name, env, r) ==
    /\ _distributions' = [_distributions EXCEPT ![name] = r.dist]
    /\ ret' = [RetNone EXCEPT !.op = "exists", !.dist = name, !.env = env,
                  !.exc = r.exc, !.val = r.val, !.ops = r.ops]
    /\ UNCHANGED <<urllib, gpg, transport, _pool, _pool_by_package, _hashes, _G_ZIPPER,
                   listed>>

ExistsCall(name, env) ==
    /\ name \in DOMAIN _distributions
    /\ ExistsDone(name, env, exists(gpg, name, _distributions[name], env))

\* Distribution.package_list(component, architecture) on a known distribution
PackageListDone(name, component, env, remote, r) ==
    /\ _distributions' = [_distributions EXCEPT ![name] = r.dist]
    /\ _pool' = r.pool
    /\ _pool_by_package' = r.by_name
    /\ _hashes' = r.hashes
    /\ _G_ZIPPER' = r.zipper
    /\ ret' = [RetNone EXCEPT !.op = "package_list", !.dist = name,
                  !.component = component, !.env = env,
                  !.remote = remote,
                  !.exc = r.exc,
                  !.val = IF r.exc = None THEN "PackageList" ELSE None,
                  !.ops = r.ops, !.msg = r.msg]
    /\ UNCHANGED <<urllib, gpg, transport, listed>>

PackageListCall(name, component, architecture, env, remote) ==
    /\ name \in DOMAIN _distributions
    /\ PackageListDone(name, component, env, remote,
                       package_list(gpg, transport, name, _distributions[name],
                                    component, architecture, env, remote,
                                    [pool |-> _pool, by_name |-> _pool_by_package,
                                     hashes |-> _hashes], _G_ZIPPER))

PackageListAddDone(name, input, r) ==
    /\ _pool' = r.pool
    /\ _pool_by_package' = r.by_name
    /\ _hashes' = r.hashes
    /\ listed' = IF input.kind = "IO" /\ r.exc = None
                 THEN listed \cup {<<name, input.content>>} ELSE listed
    /\ ret' = [RetNone EXCEPT !.op = "add", !.dist = name, !.input = input,
                  !.exc = r.exc, !.ops = r.ops]
    /\ UNCHANGED <<urllib, gpg, transport, _distributions, _G_ZIPPER>>

\* PackageList.add(input) on the list a distribution's package_list made
PackageListAddCall(name, input, download) ==
    /\ name \in DOMAIN _distributions
    /\ _distributions[name]._packages
    /\ PackageListAddDone(name, input,
                          add([pool |-> _pool, by_name |-> _pool_by_package,
                               hashes |-> _hashes], transport, input, download))

\* the remote answers a call consults: a resolution only while the
\* distribution has no cached _exists, an index only when package_list gets
\* as far as the download
EnvsFor(name, envs) ==
    IF name \in DOMAIN _distributions /\ ~ExistsCached(_distributions[name])
    THEN envs ELSE {NoEnv}

EnvsForList(name, envs) ==
    IF name \in DOMAIN _distributions /\ _distributions[name]._packages
    THEN {NoEnv} ELSE EnvsFor(name, envs)

RemotesFor(name, env, remotes) ==
    IF /\ name \in DOMAIN _distributions
       /\ ~_distributions[name]._packages
       /\ exists(gpg, name, _distributions[name], env).val = "True"
    THEN remotes ELSE {NoRemote}

\* AbstractRepoObject._download_file(path, hashes, decoder), as adopt (line
\* 175, no decoder) and package_list (lines 136-139) call it
DownloadDone(path, hashes, decoder, remote, r) ==
    /\ _G_ZIPPER' = r.zipper
    /\ ret' = [RetNone EXCEPT !.op = "download", !.file = path, !.hashes = hashes,
                  !.decoder = decoder, !.remote = remote, !.exc = r.exc,
                  !.data = r.data, !.ops = r.ops, !.msg = r.msg]
    /\ UNCHANGED <<urllib, gpg, transport, _pool, _pool_by_package, _distributions,
                   _hashes, listed>>

DownloadCall(path, hashes, decoder, remote) ==
    DownloadDone(path, hashes, decoder, remote,
                 _download_file(path, hashes, decoder, remote, _G_ZIPPER))

\* FileHash objects a caller can hold: each digest slot unset or set
DownloadHashes ==
    {[FileHash(100, m, h) EXCEPT !.sha1 = a, !.sha512 = b] :
        m \in {None, "sum"}, h \in {None, "sum"},
        a \in {None, "sum"}, b \in {None, "sum"}}

DownloadRemotes ==
    BadRemotes \cup {Remote("present", "data", "sum", m, 100, OneStanza) :
                        m \in {"sum", "other"}}

DownloadFiles ==
    {<<"dists", "stable">> \o IndexName("main", "amd64", ext) : ext \in {".gz", ""}}

\* the decoders the callers pass: none, Ellipsis, and the gzip decoder for
\* a file named *.gz
Decoders(path) ==
    {None, Ellipsis} \cup IF path[Len(path)] = ".gz" THEN {"gzip"} ELSE {}

\* Repository.scan_distributions(), remote being what dists/ is on a
\* transport that can list
ScanDone(listing, r) ==
    /\ _distributions' = r.dists
    /\ ret' = [RetNone EXCEPT !.op = "scan_distributions", !.listing = listing,
                  !.exc = r.exc, !.val = r.val,
                  !.ops = <<Op("list_directory", <<"dists">>)>>]
    /\ UNCHANGED <<urllib, gpg, transport, _pool, _pool_by_package, _hashes, _G_ZIPPER,
                   listed>>

ScanDistributionsCall(remote) ==
    ScanDone(list_directory(transport, remote),
             scan_distributions(_distributions, list_directory(transport, remote)))

\* the remote listings a scan consults: none on a transport that cannot list
ListingsFor(t) == IF t = "UrlLib" THEN {NoListing} ELSE Listings

\* list(tags.read_tag_file(data)) on a text of the caller, the first call
\* of a run
ReadTagFileDone(data, r) ==
    /\ ret.op = "init"
    /\ ret' = [RetNone EXCEPT !.op = "read_tag_file", !.exc = r.exc,
                  !.tags = [NoTags EXCEPT !.text = data, !.blocks = r.blocks]]
    /\ UNCHANGED <<urllib, gpg, transport, _pool, _pool_by_package, _distributions,
                   _hashes, _G_ZIPPER, listed>>

ReadTagFileCall(data) == ReadTagFileDone(data, read_tag_file(data))

\* str(block) on a block the last parse yielded
StrCall(i) ==
    /\ ret.op \in {"read_tag_file", "reparse"}
    /\ i \in 1..Len(ret.tags.blocks)
    /\ ret' = [ret EXCEPT !.op = "str", !.exc = None,
                  !.tags = [text |-> __str__(ret.tags.blocks[i]),
                            blocks |-> <<>>,
                            block |-> ret.tags.blocks[i],
                            first |-> IF ret.op = "reparse"
                                      THEN ret.tags.text ELSE <<>>,
                            again |-> ret.op = "reparse"]]
    /\ UNCHANGED <<urllib, gpg, transport, _pool, _pool_by_package, _distributions,
                   _hashes, _G_ZIPPER, listed>>

\* list(tags.read_tag_file(text)) on the text str(block) gave
ReparseDone(r) ==
    /\ ret' = [ret EXCEPT !.op = "reparse", !.exc = r.exc,
                  !.tags = [ret.tags EXCEPT !.blocks = r.blocks]]
    /\ UNCHANGED <<urllib, gpg, transport, _pool, _pool_by_package, _distributions,
                   _hashes, _G_ZIPPER, listed>>

ReparseCall ==
    /\ ret.op = "str"
    /\ ReparseDone(read_tag_file(ret.tags.text))

\* release[key] = table on the ReleaseFile the caller holds (ret.files is
\* its files map)
ReleaseSetItemCall(key, table) ==
    /\ ret' = [RetNone EXCEPT !.op = "ReleaseFile.__setitem__", !.field = key,
                  !.files = ReleaseSetItem(ret.files, key, table)]
    /\ UNCHANGED <<urllib, gpg, transport, _pool, _pool_by_package, _distributions,
                   _hashes, _G_ZIPPER, listed>>

\* release[key] on the ReleaseFile the caller holds
ReleaseGetItemDone(key, r) ==
    /\ ret' = [RetNone EXCEPT !.op = "ReleaseFile.__getitem__", !.field = key,
                  !.files = ret.files, !.exc = r.exc, !.val = r.val]
    /\ UNCHANGED <<urllib, gpg, transport, _pool, _pool_by_package, _distributions,
                   _hashes, _G_ZIPPER, listed>>

ReleaseGetItemCall(key) == ReleaseGetItemDone(key, ReleaseGetItem(ret.files, key))

\* deb.extract_control_file(deb) on the bytes of an archive
ExtractControlFileDone(deb, r) ==
    /\ ret' = [RetNone EXCEPT !.op = "extract_control_file", !.input = deb,
                  !.exc = r.exc, !.pkg = r.block]
    /\ UNCHANGED <<urllib, gpg, transport, _pool, _pool_by_package, _distributions,
                   _hashes, _G_ZIPPER, listed>>

ExtractControlFileCall(deb) == ExtractControlFileDone(deb, extract_control_file(deb))

\* the URIs a caller asks the UrlLib transport for
Uris == {"http://h/u", "http://h/v"}

\* one call on the UrlLib transport, r being what it did
UrlLibDone(op, uri, r) ==
    /\ urllib' = r.u
    /\ ret' = [RetNone EXCEPT !.op = op, !.field = uri, !.exc = r.exc, !.val = r.val]
    /\ UNCHANGED <<gpg, transport, _pool, _pool_by_package, _distributions,
                   _hashes, _G_ZIPPER, listed>>

\* transport.exists(uri); while fewer than MaxStreams streams were opened
UrlExistsCall(uri, found) ==
    /\ urllib.opened < MaxStreams
    /\ UrlLibDone("UrlLib.exists", uri, UrlLib_exists(urllib, uri, found))

\* transport.open_read(uri)
UrlOpenReadCall(uri, found) ==
    /\ urllib.opened < MaxStreams
    /\ UrlLibDone("UrlLib.open_read", uri, UrlLib_open_read(urllib, uri, found))

\* transport.open_write(uri)
UrlOpenWriteCall(uri) ==
    UrlLibDone("UrlLib.open_write", uri, UrlLib_open_write(urllib, uri))

\* a caller closes a stream open_read gave it
StreamCloseCall(stream) ==
    /\ stream \in urllib.given \ urllib.closed
    /\ urllib' = [urllib EXCEPT !.closed = @ \cup {stream}]
    /\ ret' = [RetNone EXCEPT !.op = "close"]
    /\ UNCHANGED <<gpg, transport, _pool, _pool_by_package, _distributions,
                   _hashes, _G_ZIPPER, listed>>

----------------------------------------------------------------------------
(* Specifications *)

\* The pool: every way a package gets into it, over one healthy remote
Next ==
    \/ \E stanza \in AddInputs : AddPackageCall(stanza)
    \/ \E input \in AdoptInputs : \E download \in Downloads(input) :
          AdoptCall(input, download)
    \/ DistributionCall("stable")
    \/ \E env \in EnvsForList("stable", PlainEnvs(gpg)) :
          \E remote \in RemotesFor("stable", env, Remotes) :
             PackageListCall("stable", "main", "amd64", env, remote)

Spec == Init /\ [][Next]_vars

\* Package lists: adding to the lists of the distributions
NextLists ==
    \/ \E name \in DistNames : DistributionCall(name)
    \/ \E name \in DistNames : \E env \in EnvsForList(name, PlainEnvs(gpg)) :
          \E remote \in RemotesFor(name, env, FewRemotes) :
             PackageListCall(name, "main", "amd64", env, remote)
    \/ \E name \in DistNames, input \in AdoptInputs :
          \E download \in Downloads(input) :
             PackageListAddCall(name, input, download)

SpecLists == Init /\ [][NextLists]_vars

\* Distributions: Release resolution against every remote
NextDist ==
    \/ \E name \in DistNames : DistributionCall(name)
    \/ \E name \in DistNames : \E env \in EnvsFor(name, Envs(gpg)) :
          ExistsCall(name, env)
    \/ \E name \in DistNames, c \in Components, a \in Architectures :
          \E env \in EnvsForList(name, Envs(gpg)) :
             \E remote \in RemotesFor(name, env, FewRemotes) :
                PackageListCall(name, c, a, env, remote)

SpecDist == Init /\ [][NextDist]_vars

\* The downloader alone, over every FileHash and remote file
NextDownload ==
    \E path \in DownloadFiles, hashes \in DownloadHashes, remote \in DownloadRemotes :
       \E decoder \in Decoders(path) :
          DownloadCall(path, hashes, decoder, remote)

SpecDownload == Init /\ [][NextDownload]_vars

\* Scanning dists/ among distributions that are known and resolved
NextScan ==
    \/ \E name \in DistNames : DistributionCall(name)
    \/ \E name \in DistNames : \E env \in EnvsFor(name, PlainEnvs(gpg)) :
          ExistsCall(name, env)
    \/ \E remote \in ListingsFor(transport) : ScanDistributionsCall(remote)

SpecScan == Init /\ [][NextScan]_vars

\* The repository as a whole: every call that can change the pool, the name
\* index or the distribution map
NextAll ==
    \/ \E stanza \in AddInputs : AddPackageCall(stanza)
    \/ \E input \in RawInputs : AdoptCall(input, "ok")
    \/ DistributionCall("stable")
    \/ \E env \in EnvsFor("stable", PlainEnvs(gpg)) : ExistsCall("stable", env)
    \/ \E env \in EnvsForList("stable", PlainEnvs(gpg)) :
          \E remote \in RemotesFor("stable", env, FewRemotes) :
             PackageListCall("stable", "main", "amd64", env, remote)
    \/ \E remote \in ListingsFor(transport) : ScanDistributionsCall(remote)

SpecAll == Init /\ [][NextAll]_vars

\* The tag codec: parsing texts and writing the blocks back
NextTags ==
    \/ \E data \in Texts : ReadTagFileCall(data)
    \/ \E i \in 1..MaxLines : StrCall(i)
    \/ ReparseCall

SpecTags == Init /\ [][NextTags]_vars

\* The checksum tables of one ReleaseFile: writes and reads of magic fields
NextRelease ==
    \/ \E key \in {"MD5Sum", "SHA256"}, table \in Tables :
          ReleaseSetItemCall(key, table)
    \/ \E i \in 1..Len(ReleaseMagic) : ReleaseGetItemCall(ReleaseMagic[i])

SpecRelease == Init /\ [][NextRelease]_vars

\* apt/deb.py: the control stanza of every archive
NextDeb == \E deb \in Archives : ExtractControlFileCall(deb)

SpecDeb == Init /\ [][NextDeb]_vars

\* The UrlLib transport and the callers of its streams
NextUrlLib ==
    \/ \E uri \in Uris, found \in BOOLEAN : UrlExistsCall(uri, found)
    \/ \E uri \in Uris, found \in BOOLEAN : UrlOpenReadCall(uri, found)
    \/ \E uri \in Uris : UrlOpenWriteCall(uri)
    \/ \E stream \in 1..MaxStreams : StreamCloseCall(stream)

SpecUrlLib == Init /\ [][NextUrlLib]_vars

----------------------------------------------------------------------------
(* Properties *)

SameNameVersion(a, b) ==
    _pool[a].Package = _pool[b].Package /\ _pool[a].Version = _pool[b].Version

IsRegistered(h) ==
    /\ _pool[h].Package \in DOMAIN _pool_by_package
    /\ _pool[h].Version \in DOMAIN _pool_by_package[_pool[h].Package]

ByName(h) == _pool_by_package[_pool[h].Package][_pool[h].Version]

\* C1: after any sequence of add_package, adopt and package_list calls,
\* every key h of the pool maps to a Package whose SHA256 field equals h.
C1_PoolKeyedBySHA256 ==
    \A h \in DOMAIN _pool : _pool[h].SHA256 = h

\* the pool holds a package that an index or add_package brought and one
\* that adopt stored, after a package_list call that returned
C1_Witness ==
    /\ ret.op = "package_list" /\ ret.exc = None
    /\ \E a, b \in DOMAIN _pool :
          _pool[a].Filename = "a.deb" /\ _pool[b].Filename # "a.deb"

C3_ByNameValuesArePoolKeys ==
    \A n \in DOMAIN _pool_by_package :
       \A v \in DOMAIN _pool_by_package[n] :
          _pool_by_package[n][v] \in DOMAIN _pool

\* by_name holds two names, one of them with two versions
C3_Witness ==
    \E n, m \in DOMAIN _pool_by_package :
       n # m /\ Cardinality(DOMAIN _pool_by_package[n]) >= 2

\* C4: adopt of raw .deb content returns the Package stored in the pool
\* under the content's SHA256, on the first call as on the second, and a
\* call on pooled content leaves the size of the pool unchanged.
C4_AdoptReturnsThePooledPackage ==
    [][(ret'.op = "adopt" /\ ret'.input.kind = "IO" /\ ret'.exc = None)
          => /\ Sha256(ret'.input.content) \in DOMAIN _pool'
             /\ ret'.pkg = _pool'[Sha256(ret'.input.content)]
             /\ Sha256(ret'.input.content) \in DOMAIN _pool
                   => Cardinality(DOMAIN _pool') = Cardinality(DOMAIN _pool)]_vars

\* C5 as stated: when the stanza's SHA256 is already a pool key, add_package
\* returns the Package already stored under that key and leaves pool and
\* by_name unchanged.
C5_AddPackageReturnsPooled ==
    [][(ret'.op = "add_package" /\ ret'.input.SHA256 \in DOMAIN _pool)
          => /\ ret'.exc = None
             /\ ret'.pkg = _pool[ret'.input.SHA256]
             /\ _pool' = _pool
             /\ _pool_by_package' = _pool_by_package]_vars

\* C5 amended: when the stanza's SHA256 is already a pool key, add_package
\* leaves pool and by_name unchanged; it returns the Package already stored
\* under that key when Filename, Package and Version of the stanza are
\* present and not empty, and raises otherwise.
C5_AddPackageIdempotentOnSHA256 ==
    [][(ret'.op = "add_package" /\ ret'.input.SHA256 \in DOMAIN _pool)
          => /\ _pool' = _pool
             /\ _pool_by_package' = _pool_by_package
             /\ IF \A f \in {"Filename", "Package", "Version"} :
                      ret'.input[f] \notin {Absent, ""}
                THEN ret'.exc = None /\ ret'.pkg = _pool[ret'.input.SHA256]
                ELSE ret'.exc # None]_vars

\* add_package returned a pooled package that is not built from the stanza
\* it was called with
C5_Witness ==
    /\ ret.op = "add_package" /\ ret.exc = None
    /\ ret.input.SHA256 \in DOMAIN _pool
    /\ ret.pkg = _pool[ret.input.SHA256]
    /\ ret.input.Package # ret.pkg.Package

\* C6: add_package on a stanza in which any of SHA256, Filename, Package or
\* Version is absent or empty fails with MissingControlField carrying the
\* source name and the name of a missing field, and leaves pool and by_name
\* unchanged.
C6_MissingFieldRaisesMissingControlField ==
    [][(/\ ret'.op = "add_package"
        /\ \E f \in {"SHA256", "Filename", "Package", "Version"} :
              ret'.input[f] \in {Absent, ""})
          => /\ ret'.exc = "MissingControlField"
             /\ ret'.path = SourceName
             /\ ret'.field \in {"SHA256", "Filename", "Package", "Version"}
             /\ ret'.input[ret'.field] \in {Absent, ""}
             /\ _pool' = _pool
             /\ _pool_by_package' = _pool_by_package]_vars

\* C7: when the same .deb bytes were added to the package lists of both
\* distributions, exactly one pool entry holds them and the PackageList of
\* either distribution contains that entry's SHA256.
C7_OneEntryInBothLists ==
    \A x \in Debs :
       (\A d \in DistNames : <<d, x>> \in listed)
          => /\ Cardinality({h \in DOMAIN _pool : _pool[h].SHA256 = Sha256(x)}) = 1
             /\ Sha256(x) \in DOMAIN _pool
             /\ \A d \in DistNames : _pool[Sha256(x)].SHA256 \in ListHashes(d)

\* two .deb contents were each added to the lists of both distributions
C7_Witness ==
    \E x, y \in Debs :
       x # y /\ \A d \in DistNames : <<d, x>> \in listed /\ <<d, y>> \in listed

\* C8: once exists() has returned true or false for a distribution, the
\* cached value never changes, and every later exists() call on it returns
\* that value without a transport operation.
C8_ExistsIsCached ==
    [][\A n \in DOMAIN _distributions :
          _distributions[n]._exists # None
             => /\ _distributions'[n]._exists = _distributions[n]._exists
                /\ (ret'.op = "exists" /\ ret'.dist = n)
                      => /\ ret'.exc = None
                         /\ ret'.val = _distributions[n]._exists
                         /\ ret'.ops = <<>>]_vars

\* exists() answered from the cache, one distribution being cached present
\* and the other absent
C8_Witness ==
    /\ ret.op = "exists" /\ ret.ops = <<>> /\ ret.val \in {"True", "False"}
    /\ \E n, m \in DOMAIN _distributions :
          _distributions[n]._exists = "True" /\ _distributions[m]._exists = "False"

\* C9: with a verifier, when InRelease can be opened and inline verification
\* reports valid, the resolution caches the ReleaseFile parsed from the
\* verifier's output data and exists() returns true.
C9_ValidInReleaseIsCached ==
    (/\ gpg
     /\ ret.op = "exists"
     /\ ret.env.inrelease = "valid"
     /\ ret.env.data \in ReleaseContents \ {"empty"})
       => /\ ret.exc = None
          /\ ret.val = "True"
          /\ _distributions[ret.dist].release_data = ParseRelease(ret.env.data).release

\* C10: with a verifier, InRelease absent and Release present, the
\* resolution fetches Release.gpg and runs the detached verification: on
\* valid the distribution has the ReleaseFile of Release and exists() is
\* true; on invalid the call fails with a signature error and neither a
\* release nor an exists value is cached.
C10_DetachedSignatureDecides ==
    (/\ gpg
     /\ ret.op = "exists"
     /\ ret.env.inrelease = "absent"
     /\ ret.env.release \in ReleaseContents \ {"empty"}
     /\ ret.env.sig = "present"
     /\ ret.env.detached \in {"valid", "invalid"})
       => /\ \E i \in 1..Len(ret.ops) :
                ret.ops[i] = Op("open_read", RelPath(ret.dist, "Release.gpg"))
          /\ \E i \in 1..Len(ret.ops) :
                ret.ops[i] = Op("verify", RelPath(ret.dist, "Release"))
          /\ IF ret.env.detached = "valid"
             THEN /\ ret.exc = None
                  /\ ret.val = "True"
                  /\ _distributions[ret.dist].release_data
                        = ParseRelease(ret.env.release).release
             ELSE /\ ret.exc = "SignatureError"
                  /\ _distributions[ret.dist]._exists = None
                  /\ _distributions[ret.dist].release_data = NoRelease

\* C11: without a verifier, exists() on a distribution whose Release is
\* present caches the ReleaseFile parsed from it and returns true without a
\* signature check; on a distribution whose Release is not found it returns
\* false and raises nothing.
C11_ReleaseWithoutVerifier ==
    (~gpg /\ ret.op = "exists")
       => /\ ret.env.release \in ReleaseContents \ {"empty"}
                => /\ ret.exc = None
                   /\ ret.val = "True"
                   /\ _distributions[ret.dist]._exists = "True"
                   /\ _distributions[ret.dist].release_data
                         = ParseRelease(ret.env.release).release
                   /\ _distributions[ret.dist].release_data.kind = "ReleaseFile"
                   /\ \A i \in 1..Len(ret.ops) : ret.ops[i].op # "verify"
                   /\ \A i \in 1..Len(ret.ops) :
                         ret.ops[i].path = RelPath(ret.dist, "Release")
          /\ ret.env.release = "absent"
                => /\ ret.exc = None
                   /\ ret.val = "False"
                   /\ _distributions[ret.dist]._exists = "False"
                   /\ _distributions[ret.dist].release_data = NoRelease

\* without a verifier, one distribution was found present from its Release
\* and exists() has just answered false for another whose Release is missing
C11_Witness ==
    /\ ~gpg
    /\ ret.op = "exists" /\ ret.env.release = "absent" /\ ret.val = "False"
    /\ \E n \in DOMAIN _distributions :
          /\ n # ret.dist
          /\ _distributions[n]._exists = "True"
          /\ _distributions[n].release_data.kind = "ReleaseFile"

\* C12: package_list is memoized per (component, architecture): after a call
\* that built the list of one pair from its index, the next call on the
\* distribution with the same pair returns that list without a download, and
\* with another pair whose index the release file lists it downloads that
\* pair's own Packages index.
C12_MemoizedPerComponentAndArchitecture ==
    [][(/\ ret.op = "package_list" /\ ret.exc = None
        /\ ret'.op = "package_list" /\ ret'.dist = ret.dist
        /\ _distributions[ret.dist]._exists = "True"
        /\ \E i \in 1..Len(ret.ops) : ret.ops[i].path[3] = ret.component
        /\ IndexName(ret'.component, "amd64", ".gz")
              \in DOMAIN _distributions[ret.dist].release_data.files)
          => IF ret'.component = ret.component
             THEN ret'.exc = None /\ ret'.val = "PackageList" /\ ret'.ops = <<>>
             ELSE \E i \in 1..Len(ret'.ops) :
                     ret'.ops[i] = Op("open_read",
                                      <<"dists", ret'.dist>>
                                         \o IndexName(ret'.component, "amd64", ".gz"))]_vars

\* the path of the Packages.gz index that the last package_list call asked for
GzIndexOfCall(r) == <<"dists", r.dist>> \o IndexName(r.component, "amd64", ".gz")

C14_GzipAndPlainIndexesAreConsumed ==
    (/\ ret.op = "package_list"
     /\ ret.remote.file = "present" /\ ret.remote.raw = "data"
     /\ ret.remote.sha256 = "sum" /\ ret.remote.size = 100
     /\ _distributions[ret.dist].release_data.kind = "ReleaseFile"
     /\ \E ext \in {".gz", ""} :
           /\ IndexName(ret.component, "amd64", ext)
                 \in DOMAIN _distributions[ret.dist].release_data.files
           /\ _distributions[ret.dist].release_data
                 .files[IndexName(ret.component, "amd64", ext)].sha256 = "sum")
       => /\ ret.exc = None
          /\ ret.val = "PackageList"
          /\ \A i \in 1..Len(OneStanza) :
                /\ OneStanza[i].SHA256 \in DOMAIN _pool
                /\ OneStanza[i].SHA256 \in ListHashes(ret.dist)

\* C15: package_list on an existing distribution whose release file table
\* holds neither the Packages.gz nor the Packages of the pair fails with
\* NotFound (FileNotFoundError, line 134) and performs no download.
C15_UnlistedIndexIsNotFound ==
    [][(/\ ret'.op = "package_list"
        /\ ~_distributions[ret'.dist]._packages
        /\ _distributions'[ret'.dist]._exists = "True"
        /\ \A ext \in {".gz", ""} :
              IndexName(ret'.component, "amd64", ext)
                 \notin DOMAIN _distributions'[ret'.dist].release_data.files)
          => /\ ret'.exc = "FileNotFoundError"
             /\ \A i \in 1..Len(ret'.ops) :
                   ret'.ops[i].path[Len(ret'.ops[i].path)] \notin {".gz", ""}]_vars

\* C16: package_list on a distribution whose exists() is false fails with
\* NonExistent and returns no PackageList.
C16_PackageListOfAbsentDistributionRaises ==
    (ret.op = "package_list" /\ _distributions[ret.dist]._exists = "False")
       => ret.exc = "NonExistent" /\ ret.val = None

\* the digest slots of a FileHash that are populated, by place in the
\* priority order
Populated(hashes) == {i \in 1..Len(HashOrder) : hashes[HashOrder[i]] # None}

FirstPopulated(hashes) ==
    HashOrder[CHOOSE i \in Populated(hashes) : \A j \in Populated(hashes) : i <= j]

\* C17: a download (without decoder) of a file that is there verifies it
\* against the first populated hash in the order sha256, sha512, sha1, md5:
\* it succeeds when that digest and the length are the declared ones, fails
\* with IncorrectChecksum when not, and fails with NoValidHash when no hash
\* is populated.
C17_FirstPopulatedHashVerifies ==
    (ret.op = "download" /\ ret.remote.file = "present" /\ ret.decoder = None)
       => IF Populated(ret.hashes) = {}
          THEN ret.exc = "NoValidHash"
          ELSE IF /\ ret.remote[FirstPopulated(ret.hashes)]
                        = ret.hashes[FirstPopulated(ret.hashes)]
                  /\ ret.remote.size = ret.hashes.size
          THEN ret.exc = None
          ELSE ret.exc = "IncorrectChecksum"

ReleaseFileOpened(r, f) ==
    /\ \E i \in 1..Len(r.ops) : r.ops[i] = Op("open_read", RelPath(r.dist, f))
    /\ CASE f = "InRelease" -> r.env.inrelease # "absent"
         [] f = "Release" -> r.env.release # "absent"
         [] f = "Release.gpg" -> r.env.sig # "absent"

\* C19: every stream that exists() or package_list opened (InRelease,
\* Release, Release.gpg, the Packages index) is closed when the call returns
\* or raises.
C19_OpenedStreamsAreClosed ==
    ret.op \in {"exists", "package_list"}
       => /\ \A f \in {"InRelease", "Release", "Release.gpg"} :
                ReleaseFileOpened(ret, f)
                   => \E j \in 1..Len(ret.ops) :
                         ret.ops[j] = Op("close_read", RelPath(ret.dist, f))
          /\ \A i \in 1..Len(ret.ops) :
                (/\ ret.ops[i].op = "open_read"
                 /\ ret.ops[i].path[Len(ret.ops[i].path)] \in {".gz", ""}
                 /\ ret.remote.file = "present")
                   => \E j \in (i + 1)..Len(ret.ops) :
                         ret.ops[j] = Op("close_read", ret.ops[i].path)

\* C20: scan_distributions returns true and adds nothing when listing dists/
\* is NotFound, returns false and adds nothing when listing is Unsupported,
\* and otherwise returns true with every listed directory name a known
\* distribution and no other name added; in all three cases every
\* distribution that was known is kept with its cached state.
C20_ScanDistributions ==
    [][ret'.op = "scan_distributions"
          => /\ ret'.exc = None
             /\ \A n \in DOMAIN _distributions :
                   /\ n \in DOMAIN _distributions'
                   /\ _distributions'[n] = _distributions[n]
             /\ ret'.listing.outcome \in {"NotFound", "Unsupported", "listed"}
             /\ ret'.listing.outcome = "NotFound"
                   => /\ ret'.val = "True"
                      /\ DOMAIN _distributions' = DOMAIN _distributions
             /\ ret'.listing.outcome = "Unsupported"
                   => /\ ret'.val = "False"
                      /\ DOMAIN _distributions' = DOMAIN _distributions
             /\ ret'.listing.outcome = "listed"
                   => /\ ret'.val = "True"
                      /\ DOMAIN _distributions'
                            = DOMAIN _distributions \cup ret'.listing.directories]_vars

\* a scan listed a distribution that was cached as existing, and one that
\* is new
C20_Witness ==
    /\ ret.op = "scan_distributions" /\ ret.listing.outcome = "listed"
    /\ \E n, m \in ret.listing.directories :
          /\ n # m
          /\ _distributions[n]._exists = "True"
          /\ m \notin DistNames /\ _distributions[m] = NewDistribution

\* C21: nothing is removed implicitly.  Across every distribution,
\* scan_distributions, exists, package_list, add_package and adopt call,
\* whether it returns or raises, the keys of the pool, the names of by_name
\* and the versions under each name, and the names of the distribution map
\* all remain.
C21_NothingIsRemoved ==
    [][/\ DOMAIN _pool \subseteq DOMAIN _pool'
       /\ DOMAIN _pool_by_package \subseteq DOMAIN _pool_by_package'
       /\ \A n \in DOMAIN _pool_by_package :
             DOMAIN _pool_by_package[n] \subseteq DOMAIN _pool_by_package'[n]
       /\ DOMAIN _distributions \subseteq DOMAIN _distributions']_vars

\* a failed call on a repository that holds packages under two names and
\* knows more than one distribution
C21_Witness ==
    /\ ret.exc # None
    /\ Cardinality(DOMAIN _pool) >= 2
    /\ Cardinality(DOMAIN _pool_by_package) >= 2
    /\ Cardinality(DOMAIN _distributions) >= 2

\* a package_list step got to the loop of lines 141-144 and read the
\* stanzas of the remote index
ReadIndex ==
    /\ ret'.op = "package_list"
    /\ ret'.remote.stanzas # <<>>
    /\ ret'.exc \in {None, "KeyError", "MissingControlField"}

\* the stanzas that step read
Index == ret'.remote.stanzas

ValidStanza(s) ==
    \A f \in {"SHA256", "Filename", "Package", "Version"} : s[f] \notin {Absent, ""}

\* the stanzas in front of the first one that add_package refuses
ValidPrefix(stanzas) ==
    SubSeq(stanzas, 1,
           IF \A i \in 1..Len(stanzas) : ValidStanza(stanzas[i])
           THEN Len(stanzas)
           ELSE (CHOOSE i \in 1..Len(stanzas) :
                    /\ ~ValidStanza(stanzas[i])
                    /\ \A j \in 1..(i - 1) : ValidStanza(stanzas[j])) - 1)

SameNameAndVersion(a, b) == a.Package = b.Package /\ a.Version = b.Version

\* stanza j is inserted: its SHA256 is not pooled when the loop reaches it
NewAt(stanzas, j) ==
    /\ stanzas[j].SHA256 \notin DOMAIN _pool
    /\ \A i \in 1..(j - 1) : stanzas[i].SHA256 # stanzas[j].SHA256

\* C22 as stated: of two stanzas of one Packages file with the same Package
\* and Version and different SHA256, by_name[Package][Version] ends as the
\* SHA256 of the later one.
C22_ByNameEndsAsLaterStanza ==
    [][ReadIndex /\ ret'.exc = None =>
          \A j \in 1..Len(Index) : \A i \in 1..(j - 1) :
             /\ SameNameAndVersion(Index[i], Index[j])
             /\ Index[i].SHA256 # Index[j].SHA256
             => _pool_by_package'[Index[j].Package][Index[j].Version]
                   = Index[j].SHA256]_vars

\* C22: package_list inserts the stanzas of a Packages file in file order.
\* The pool gains exactly the SHA256 of the stanzas in front of the first
\* one add_package refuses, and by_name[Package][Version] ends as the SHA256
\* of the last of those stanzas with that Package and Version whose SHA256
\* was not yet pooled when the loop reached it; a stanza whose SHA256 is
\* already pooled changes nothing.
C22_InsertionsFollowFileOrder ==
    [][ReadIndex =>
          /\ DOMAIN _pool' = DOMAIN _pool \cup
                {ValidPrefix(Index)[i].SHA256 : i \in 1..Len(ValidPrefix(Index))}
          /\ \A j \in 1..Len(ValidPrefix(Index)) :
                /\ NewAt(Index, j)
                /\ \A k \in (j + 1)..Len(ValidPrefix(Index)) :
                      ~(NewAt(Index, k) /\ SameNameAndVersion(Index[j], Index[k]))
                => _pool_by_package'[Index[j].Package][Index[j].Version]
                      = Index[j].SHA256
          /\ \A j \in 1..Len(ValidPrefix(Index)) :
                /\ ~NewAt(Index, j)
                /\ \A k \in 1..Len(ValidPrefix(Index)) :
                      SameNameAndVersion(Index[j], Index[k]) => ~NewAt(Index, k)
                /\ Index[j].Package \in DOMAIN _pool_by_package
                => _pool_by_package'[Index[j].Package]
                      = _pool_by_package[Index[j].Package]]_vars

\* a package_list that read two stanzas of foo 1.0 with different SHA256
\* (it put both in its list), after which by_name holds one of them
C22_Witness ==
    /\ ret.op = "package_list"
    /\ ret.exc = None
    /\ ret.ops # <<>>
    /\ Len(ret.remote.stanzas) >= 2
    /\ ret.remote.stanzas[1].SHA256 = "h1"
    /\ ret.remote.stanzas[2].SHA256 = "h2"
    /\ SameNameAndVersion(ret.remote.stanzas[1], ret.remote.stanzas[2])
    /\ _hashes = {"h1", "h2"}
    /\ _pool["h1"].id[1] = "_add_package"
    /\ _pool_by_package["foo"]["1.0"] = "h2"
    /\ _pool["h1"].id[1] = "_add_package"
    /\ _pool["h2"].id[1] = "_add_package"
    /\ _pool["h1"].Filename = "a.deb"
    /\ SameNameVersion("h1", "h2")

\* the sink events of a transport log: open_write and close, with the last
\* component of the path each is about
SinkEvents(ops) ==
    [i \in 1..Len(SelectSeq(ops, LAMBDA o : o.op \in {"open_write", "close"})) |->
        <<SelectSeq(ops, LAMBDA o : o.op \in {"open_write", "close"})[i].op,
          SelectSeq(ops, LAMBDA o : o.op \in {"open_write", "close"})[i].path[8]>>]

\* C23: an adopt call that makes a SHA256 a new key of the pool has, by
\* then, opened through transport.open_write and closed the .deb sink, then
\* the .deb.dat sink, then the .deb.contents sink, all under one pool
\* directory; a call whose sinks were not all written and closed registers
\* nothing.
C23_SinksClosedBeforeRegistration ==
    [][ret'.op = "adopt" =>
          /\ DOMAIN _pool' # DOMAIN _pool =>
                /\ SinkEvents(ret'.ops) =
                      <<<<"open_write", ".deb">>, <<"close", ".deb">>,
                        <<"open_write", ".deb.dat">>, <<"close", ".deb.dat">>,
                        <<"open_write", ".deb.contents">>,
                        <<"close", ".deb.contents">>>>
                /\ \A i, j \in 1..Len(ret'.ops) :
                      SubSeq(ret'.ops[i].path, 1, 7) = SubSeq(ret'.ops[j].path, 1, 7)
                /\ DOMAIN _pool' = DOMAIN _pool \cup {ret'.pkg.SHA256}
                /\ ret'.exc = None
          /\ ret'.exc # None => DOMAIN _pool' = DOMAIN _pool]_vars

\* an adopt that pooled a new package after writing its three files
C23_Witness ==
    /\ ret.op = "adopt"
    /\ ret.exc = None
    /\ ret.input.kind = "IO"
    /\ Len(ret.ops) >= 9
    /\ ret.pkg.SHA256 \in DOMAIN _pool
    /\ _pool[ret.pkg.SHA256].id[1] = "_add_package"

\* C24: the tag round trip.  For every block b read_tag_file yields (its
\* values hold no CR), reading str(b) yields b alone, with the same fields
\* in the same order and the same values, multi-line ones included, and
\* str of that block is str(b) again.
C24_TagRoundTrip ==
    /\ ret.op = "reparse" =>
          /\ ret.exc = None
          /\ ret.tags.blocks = <<ret.tags.block>>
    /\ ret.op = "str" /\ ret.tags.again => ret.tags.text = ret.tags.first

\* a block of two fields, one of them of two lines, was written, read back
\* and written again
C24_Witness ==
    /\ ret.op = "str"
    /\ ret.tags.again
    /\ Len(ret.tags.block.dict) = 2
    /\ \E i \in 1..2 : FirstIndex(ret.tags.block.dict[i].value, NL) # 0

\* the lines the projection of a magic field is to have: one per file with
\* that slot populated, by filename ascending
RECURSIVE ProjectedLines(_, _, _)
ProjectedLines(files, key, i) ==
    IF i > Len(TableFiles) THEN <<>>
    ELSE (IF TableFiles[i] \in DOMAIN files /\ files[TableFiles[i]][Slot(key)] # None
          THEN <<<<files[TableFiles[i]][Slot(key)], files[TableFiles[i]].size,
                   TableFiles[i]>>>>
          ELSE <<>>) \o ProjectedLines(files, key, i + 1)

\* C25: the ReleaseFile projection.  After checksum tables were written to
\* magic fields, reading a magic field k raises nothing; it yields one line
\* per FileHash with slot k populated, by filename ascending, and yields
\* absent (None) when no FileHash has slot k populated.
C25_ReleaseFileProjection ==
    ret.op = "ReleaseFile.__getitem__" =>
       /\ ret.exc = None
       /\ IF ProjectedLines(ret.files, ret.field, 1) = <<>>
          THEN ret.val = None
          ELSE ret.val = "lines" /\ ret.lines = ProjectedLines(ret.files, ret.field, 1)

\* the conditions under which an archive is to give a control stanza
HasControl(deb) ==
    /\ deb.magic
    /\ Len(deb.records) >= 2
    /\ deb.records[1].sig
    /\ deb.records[1].name = "debian-binary"
    /\ deb.records[1].text = "2.0\n"
    /\ deb.records[2].sig
    /\ deb.records[2].name \in {"control.tar", "control.tar.gz"}
    /\ deb.records[2].tar = "ok"
    /\ \E i \in 1..Len(deb.records[2].members) :
          deb.records[2].members[i].name \in {"./control", "control"}

\* C26: extract_control_file returns a control stanza only when the AR
\* magic is valid, the first record is debian-binary with body "2.0\n", the
\* second record's name starts with control.tar and its TAR holds ./control
\* or control; every other input (a truncated archive with no second record
\* among them) fails with the invalid-archive error (ValueError) and
\* returns no stanza.
C26_OtherInputsAreInvalidDeb ==
    ret.op = "extract_control_file" =>
       /\ ret.exc = None => HasControl(ret.input) /\ ret.pkg.kind = "TagBlock"
       /\ ~HasControl(ret.input) => ret.exc = "ValueError" /\ ret.pkg = NonePkg

\* the distribution n has just got a cached release, or a cached exists()
\* of true
NewlyCached(n) ==
    /\ n \in DOMAIN _distributions
    /\ \/ /\ _distributions[n].release_data = NoRelease
          /\ _distributions'[n].release_data # NoRelease
       \/ /\ _distributions[n]._exists # "True"
          /\ _distributions'[n]._exists = "True"

\* C27: with a PGP verifier configured, a step caches a release (or an
\* exists() of true) for a distribution only when a verification of that
\* resolution, inline or detached, reported valid; and after a resolution
\* in which InRelease was reported invalid and the detached verification of
\* Release was invalid or raised, the distribution has no cached
\* ReleaseFile and exists() is not true.
C27_NothingCachedUnverified ==
    /\ [][gpg => \A n \in DOMAIN _distributions :
                    NewlyCached(n) =>
                       \/ ret'.env.inrelease = "valid"
                       \/ ret'.env.detached = "valid"]_vars
    /\ [](/\ gpg
          /\ ret.op \in {"exists", "package_list"}
          /\ ret.env.inrelease = "invalid"
          /\ ret.env.detached \in {"invalid", "raises"}
          => /\ _distributions[ret.dist].release_data = NoRelease
             /\ _distributions[ret.dist]._exists # "True"
             /\ ret.val # "True")

\* exists() was called under a verifier that found InRelease invalid and
\* the detached signature of a Release with a stanza invalid
C27_Witness ==
    /\ gpg
    /\ ret.op = "exists"
    /\ ret.env.inrelease = "invalid"
    /\ ret.env.release = "relGz"
    /\ ret.env.sig = "present"
    /\ ret.env.detached = "invalid"
    /\ Len(ret.ops) >= 6

\* C28: a package_list call that fails with IncorrectChecksum or NotFound
\* leaves no memoized result: the next package_list call on that
\* distribution with the same arguments attempts the construction again
\* (it goes to the transport) and does not return a PackageList as a
\* success without reading an index.
C28_FailedPackageListIsNotMemoized ==
    [][/\ ret.op = "package_list"
       /\ ret.exc \in {"IncorrectChecksum", "FileNotFoundError"}
       /\ ret'.op = "package_list"
       /\ ret'.dist = ret.dist
       /\ ret'.component = ret.component
       => /\ ret'.ops # <<>>
          /\ ~(ret'.exc = None /\ ret'.val = "PackageList"
               /\ \A i \in 1..Len(ret'.ops) : ret'.ops[i].path[3] \in
                     {"InRelease", "Release", "Release.gpg"})]_vars

\* C29: PackageLists are independent.  An add to the PackageList of one
\* distribution leaves the members (and so the length) of the PackageList
\* of every other distribution as they were.
C29_PackageListsAreIndependent ==
    [][ret'.op = "add" =>
          \A other \in DOMAIN _distributions :
             other # ret'.dist /\ _distributions[other]._packages
                => ListHashes(other)' = ListHashes(other)]_vars

\* C30: the UrlLib transport hands a stream to a caller at most once.  An
\* open_read that returns never returns a stream that an earlier open_read
\* returned (which that caller may have read to its end or closed), so
\* after exists(u) and an open_read(u) that got the cached stream, a later
\* open_read(u) gets a newly opened one.
C30_CachedStreamGivenOnce ==
    [][ret'.op = "UrlLib.open_read" /\ ret'.exc = None
          => /\ urllib'.returned \notin urllib.given
             /\ urllib'.returned \notin urllib.closed]_vars

====
